---- MODULE Spec2Model ----
(***************************************************************************)
(* BIXI station snapshot builder (src/data_fetch.py).                      *)
(*                                                                         *)
(* BIXIDataFetcher.fetch_feed retrieves one GBFS feed over HTTP and writes *)
(* the raw payload to disk; get_combined_station_data fetches the          *)
(* station_information and station_status feeds one after the other,       *)
(* builds a table from each, inner-joins them on station_id, normalizes    *)
(* the coordinate columns, derives total_capacity and utilization_rate,    *)
(* writes the merged table to a CSV file and returns it.                   *)
(*                                                                         *)
(* The network and the disk are the environment: a request ends with a     *)
(* payload or with a transport error, a write succeeds or fails.           *)
(*                                                                         *)
(* BIXIGenAIPipeline (src/main_workflow.py) runs the fetcher, the AI       *)
(* analysis and the map workflow one after the other and collects their    *)
(* outcomes in a results record.  Spec is the fetcher on its own;          *)
(* PipelineSpec is the pipeline, with the fetcher, the AI service and the  *)
(* map workflow as its environment.                                        *)
(***************************************************************************)
EXTENDS Integers, Sequences, FiniteSets, TLC

(***************************************************************************)
(* Bounds of the model.                                                    *)
(***************************************************************************)
\* Largest number of station entries one feed payload carries.
MaxStations == 2
\* Numeric counts a station_status entry carries range over -1..MaxCount.
MaxCount == 2

(***************************************************************************)
(* Cell values.  A cell is a record [k, n, d]: k is the kind of the value, *)
(* n/d the number it denotes when it denotes one (d > 0).                  *)
(*   "num"      a number n/d                                               *)
(*   "numstr"   a string that spells the integer n, such as "2"            *)
(*   "text"     a string that spells no number, such as "N/A"              *)
(*   "nan"      NaN: the key was missing from the entry                    *)
(*   "id"       the station identifier n                                   *)
(*   "divfault" the outcome of a division by zero                          *)
(***************************************************************************)
Num(i) == [k |-> "num", n |-> i, d |-> 1]
NumStr(i) == [k |-> "numstr", n |-> i, d |-> 1]
Text == [k |-> "text", n |-> 0, d |-> 1]
NaN == [k |-> "nan", n |-> 0, d |-> 1]
Id(i) == [k |-> "id", n |-> i, d |-> 1]
DivFault == [k |-> "divfault", n |-> 0, d |-> 1]

Abs(i) == IF i < 0 THEN 0 - i ELSE i

RECURSIVE Gcd(_, _)
Gcd(a, b) == IF b = 0 THEN a ELSE Gcd(b, a % b)

\* A fraction in lowest terms with a positive denominator.
Ratio(a, b) ==
    LET s == IF b < 0 THEN 0 - 1 ELSE 1
        g == Gcd(Abs(a), Abs(b))
    IN  [k |-> "num", n |-> (s * a) \div g, d |-> (s * b) \div g]

(***************************************************************************)
(* JSON payloads.  A payload is [shape, stations]; the shape says what the *)
(* document looks like where get_station_information reads it:             *)
(*   "stations"     an object with a data.stations list                    *)
(*   "empty"        the empty object {}                                    *)
(*   "no_data"      a non-empty object without a "data" member             *)
(*   "no_stations"  "data" is an object without a "stations" member        *)
(*   "data_scalar"  "data" is null or a number                             *)
(*   "None"         Python's None: what fetch_feed returns after an error  *)
(* A station entry is a function from the keys it carries to cell values.  *)
(***************************************************************************)
Payload(shape, stations) == [shape |-> shape, stations |-> stations]
None == Payload("None", <<>>)
MalformedShapes == {"empty", "no_data", "no_stations", "data_scalar"}

(***************************************************************************)
(* Tables (pandas.DataFrame): a set of column names and a sequence of      *)
(* rows, each row a function from the column names to cell values.         *)
(***************************************************************************)
EmptyFrame == [cols |-> {}, rows |-> <<>>]

\* pd.DataFrame(list of dicts): the columns are the union of the keys, and
\* a key an entry lacks is NaN in its row.
DataFrame(entries) ==
    LET cols == UNION {DOMAIN entries[i] : i \in DOMAIN entries}
    IN  [cols |-> cols,
         rows |-> [i \in DOMAIN entries |->
                     [c \in cols |-> IF c \in DOMAIN entries[i]
                                     THEN entries[i][c] ELSE NaN]]]

\* DataFrame.empty: some axis has length 0.
empty(df) == df.cols = {} \/ Len(df.rows) = 0

\* df[name] = values, one value for every row.
AddColumn(df, name, values) ==
    [cols |-> df.cols \cup {name},
     rows |-> [i \in DOMAIN df.rows |->
                 [c \in df.cols \cup {name} |->
                    IF c = name THEN values[i] ELSE df.rows[i][c]]]]

(***************************************************************************)
(* info_df.merge(status_df, on='station_id', how='inner',                  *)
(*               suffixes=('_info', '_status'))                            *)
(* A column other than the key that both tables carry is renamed with the  *)
(* suffix of its side.  The rows are the pairs of rows with equal keys, in *)
(* the order of the left table.  A table without the key column makes the  *)
(* merge raise KeyError.                                                   *)
(***************************************************************************)
LeftName(c, left, right) ==
    IF c \in right.cols /\ c # "station_id" THEN c \o "_info" ELSE c
RightName(c, left, right) ==
    IF c \in left.cols /\ c # "station_id" THEN c \o "_status" ELSE c

\* A join condition that pairs every row with every row.
AlwaysMatch(l, r) == TRUE

\* on='station_id': the two rows carry the same key.
KeyMatch(l, r) == l["station_id"] = r["station_id"]

\* All pairs <<i, j>> of row numbers, in the order of the left table.
AllPairs(left, right) ==
    LET nr == Len(right.rows)
    IN  [p \in 1..(Len(left.rows) * nr) |-> <<((p - 1) \div nr) + 1, ((p - 1) % nr) + 1>>]

\* how='left': a left row without a partner is kept, paired with no row (0).
LeftPairs(left, right) ==
    LET Matches(i) == SelectSeq([j \in 1..Len(right.rows) |-> <<i, j>>],
                                LAMBDA ij : KeyMatch(left.rows[ij[1]], right.rows[ij[2]]))
        RECURSIVE From(_)
        From(i) == IF i > Len(left.rows) THEN <<>>
                   ELSE (IF Matches(i) = <<>> THEN <<(<<i, 0>>)>> ELSE Matches(i)) \o From(i + 1)
    IN  From(1)

\* how='inner': the pairs of rows with equal keys.
InnerPairs(left, right) ==
    SelectSeq(AllPairs(left, right),
              LAMBDA ij : KeyMatch(left.rows[ij[1]], right.rows[ij[2]]))

MergeRow(l, r, left, right) ==
    LET lcols == {LeftName(c, left, right) : c \in left.cols \ {"station_id"}}
        rcols == {RightName(c, left, right) : c \in right.cols \ {"station_id"}}
    IN  [c \in {"station_id"} \cup lcols \cup rcols |->
            IF c = "station_id" THEN l["station_id"]
            ELSE IF c \in lcols
                 THEN l[CHOOSE c0 \in left.cols \ {"station_id"} : LeftName(c0, left, right) = c]
                 ELSE r[CHOOSE c0 \in right.cols \ {"station_id"} : RightName(c0, left, right) = c]]

merge(left, right) ==
    IF "station_id" \notin left.cols \/ "station_id" \notin right.cols
    THEN [exc |-> "KeyError", df |-> EmptyFrame]
    ELSE LET pairs == InnerPairs(left, right)
         IN  [exc |-> "none",
              df |-> [cols |-> {"station_id"}
                               \cup {LeftName(c, left, right) : c \in left.cols \ {"station_id"}}
                               \cup {RightName(c, left, right) : c \in right.cols \ {"station_id"}},
                      rows |-> [p \in DOMAIN pairs |->
                                  MergeRow(left.rows[pairs[p][1]],
                                           IF pairs[p][2] = 0
                                           THEN [c \in right.cols |-> NaN]
                                           ELSE right.rows[pairs[p][2]],
                                           left, right)]]]

(***************************************************************************)
(* Coordinate normalization (lines 90-94): the canonical column is added   *)
(* as a copy of the alternate one when it is absent and the alternate one  *)
(* is present.                                                             *)
(***************************************************************************)
\* A normalization that copies nothing.
KeepColumns(df, canonical, alternate) == df

CopyColumn(df, canonical, alternate) ==
    IF canonical \notin df.cols /\ alternate \in df.cols
    THEN AddColumn(df, canonical, [i \in DOMAIN df.rows |-> df.rows[i][alternate]])
    ELSE df

\* A normalization that takes the latitude from lon, before lon is there.
LatitudeFromLon(df) ==
    CopyColumn(CopyColumn(df, "lat", "lon"), "lon", "longitude")

NormalizeCoordinates(df) ==
    CopyColumn(CopyColumn(df, "lon", "longitude"), "lat", "latitude")

(***************************************************************************)
(* Availability metrics (lines 96-110).                                    *)
(***************************************************************************)
\* pd.to_numeric(..., errors='coerce'): a number stays, a string that spells
\* a number becomes that number, anything else becomes NaN.
to_numeric(v) ==
    CASE v.k = "num" -> v
      [] v.k = "numstr" -> Num(v.n)
      [] OTHER -> NaN

\* A fillna that fills nothing.
keepna(v) == v

\* .fillna(0)
fillna(v) == IF v.k = "nan" THEN Num(0) ELSE v

\* The coerced count: line 99 and line 100.
Coerce(v) == fillna(to_numeric(v))

\* A difference where the sum belongs.
Minus(a, b) == Ratio(a.n * b.d - b.n * a.d, a.d * b.d)

Plus(a, b) == Ratio(a.n * b.d + b.n * a.d, a.d * b.d)

\* a / b; a zero divisor is a fault.
Divide(a, b) == IF b.n = 0 THEN DivFault ELSE Ratio(a.n * b.d, a.d * b.n)

\* A guard that lets a total of 0 through.
HasCapacityOrZero(total) == total.n >= 0

\* The guard of the lambda of lines 107-108: row['total_capacity'] > 0.
HasCapacity(total) == total.n > 0

\* The lambda of lines 107-108, with whether it divided.
Utilization(row) ==
    IF HasCapacity(row["total_capacity"])
    THEN [val |-> Divide(row["num_bikes_available"], row["total_capacity"]), divided |-> TRUE]
    ELSE [val |-> Num(0), divided |-> FALSE]

\* Line 97: both count columns are in the merged table.
HasCounts(df) == "num_bikes_available" \in df.cols /\ "num_docks_available" \in df.cols

\* Lines 99-104: the two count columns coerced, and total_capacity added.
WithCapacity(df) ==
    LET coerced == [cols |-> df.cols,
                    rows |-> [i \in DOMAIN df.rows |->
                                [c \in df.cols |->
                                   IF c \in {"num_bikes_available", "num_docks_available"}
                                   THEN Coerce(df.rows[i][c]) ELSE df.rows[i][c]]]]
    IN  AddColumn(coerced, "total_capacity",
                  [i \in DOMAIN coerced.rows |->
                     Plus(coerced.rows[i]["num_bikes_available"],
                          coerced.rows[i]["num_docks_available"])])

\* Lines 96-110.  On a table without rows, DataFrame.apply(axis=1) is taken to
\* behave as in pandas 2: it probes the lambda with a row of NaN, gets 0.0 and
\* yields an empty column, so the column is added and no row is computed.
Derive(df) ==
    IF HasCounts(df)
    THEN AddColumn(WithCapacity(df), "utilization_rate",
                   [i \in DOMAIN df.rows |-> Utilization(WithCapacity(df).rows[i]).val])
    ELSE df

\* For every row of the table Derive returns, whether line 107 divided.
Divided(df) ==
    IF HasCounts(df)
    THEN [i \in DOMAIN df.rows |-> Utilization(WithCapacity(df).rows[i]).divided]
    ELSE [i \in DOMAIN df.rows |-> FALSE]

(***************************************************************************)
(* config.BIXI_FEEDS and the names a caller may pass to fetch_feed.        *)
(***************************************************************************)
BIXI_FEEDS == {"station_information", "station_status", "system_information",
               "system_alerts", "vehicle_types"}

\* config.py, lines 12, 31 and 32.
BIXI_GBFS_BASE_URL == "https://gbfs.velobixi.com/gbfs"
DATA_DIR == "data"
OUTPUT_DIR == "output"

\* A name that is no key of BIXI_FEEDS stands for every unknown name.
FeedNames == BIXI_FEEDS \cup {"free_bike_status"}

\* A check that lets every name through.
AnyFeed(name) == TRUE

\* Line 31: feed_name in config.BIXI_FEEDS.
KnownFeed(name) == name \in BIXI_FEEDS

(***************************************************************************)
(* The documents the server may answer with.                               *)
(***************************************************************************)
\* Two stations: enough for a station to be in one feed and not in the other.
StationIds == 1..2

\* A count as a station_status entry carries it; "missing" is no cell value:
\* it says that the entry has no such key.
Missing == [k |-> "missing", n |-> 0, d |-> 1]
PlainCounts == {Missing, Num(1)}
RawCounts == {Num(i) : i \in (0 - 1)..MaxCount} \cup {NumStr(1), Text, Missing}

StatusEntry(id, bikes, docks) ==
    LET keys == {"station_id"}
                \cup (IF bikes = Missing THEN {} ELSE {"num_bikes_available"})
                \cup (IF docks = Missing THEN {} ELSE {"num_docks_available"})
    IN  [c \in keys |-> CASE c = "station_id" -> Id(id)
                          [] c = "num_bikes_available" -> bikes
                          [] c = "num_docks_available" -> docks]

\* The two naming conventions of the coordinates, and a feed without them.
CoordinateKeys == {{"lon", "lat"}, {"longitude", "latitude"}, {}}

\* Station id lies at longitude -id and latitude id.
InfoEntry(id, coords) ==
    [c \in {"station_id"} \cup coords |->
        CASE c = "station_id" -> Id(id)
          [] c \in {"lon", "longitude"} -> Num(0 - id)
          [] OTHER -> Num(id)]

SeqsUpTo(S, n) == UNION {[1..m -> S] : m \in 0..n}

Malformed == {Payload(shape, <<>>) : shape \in MalformedShapes}

\* station_information: up to MaxStations entries, all with the same keys.
InfoPayloads ==
    {Payload("stations", [i \in DOMAIN ids |-> InfoEntry(ids[i], coords)]) :
        ids \in SeqsUpTo(StationIds, MaxStations), coords \in CoordinateKeys}
    \cup Malformed

\* station_status: up to MaxStations entries with plain counts, or one entry
\* with any pair of counts.
StatusPayloads ==
    {Payload("stations", es) :
        es \in SeqsUpTo({StatusEntry(id, b, d) :
                            id \in StationIds, b \in PlainCounts, d \in PlainCounts},
                        MaxStations)}
    \cup {Payload("stations", <<StatusEntry(id, b, d)>>) :
            id \in StationIds, b \in RawCounts, d \in RawCounts}
    \cup Malformed

Payloads(name) ==
    CASE name = "station_information" -> InfoPayloads
      [] name = "station_status" -> StatusPayloads
      [] OTHER -> Malformed \cup {Payload("stations", <<>>)}

\* requests.exceptions.RequestException: the connection failed, the wait of
\* 10 s ran out, or raise_for_status met a status that is no success.
RequestExceptions == {"ConnectionError", "Timeout", "HTTPError"}

(***************************************************************************)
(* Lines 57-59 and 64-66: the table of a fetched payload.  A payload that  *)
(* is None or empty, or has no data.stations, gives an empty table; when   *)
(* "data" is null or a number, 'stations' in data['data'] raises           *)
(* TypeError.                                                              *)
(***************************************************************************)
StrictStationTable(data) ==
    CASE data.shape = "stations" -> [exc |-> "none", df |-> DataFrame(data.stations)]
      [] OTHER -> [exc |-> "MalformedFeedError", df |-> EmptyFrame]

StationTable(data) ==
    CASE data.shape = "stations" -> [exc |-> "none", df |-> DataFrame(data.stations)]
      [] data.shape = "data_scalar" -> [exc |-> "TypeError", df |-> EmptyFrame]
      [] OTHER -> [exc |-> "none", df |-> EmptyFrame]

\* The table lines 57-59, 64-66 and 82-110 make of two payloads.
TableOf(info, status) ==
    Derive(NormalizeCoordinates(merge(StationTable(info).df, StationTable(status).df).df))

\* A check that asks for both tables to be empty.
BothEmpty(info, status) == empty(info) /\ empty(status)

\* Line 78: info_df.empty or status_df.empty.
MissingStationData(info, status) == empty(info) \/ empty(status)

\* A handler that lets the exception through.
Reraise(e) == [exc |-> e, data |-> None]

\* Lines 50-52: what fetch_feed does with a RequestException: it prints the
\* error and returns None.
OnRequestException(e) == [exc |-> "none", data |-> None]

(***************************************************************************)
(* State.                                                                  *)
(***************************************************************************)
VARIABLES
    pc,          \* where the running call stands; "idle" between calls
    op,          \* the call the client made: "fetch_feed" or "get_combined_station_data"
    feed,        \* feed_name of the running fetch_feed
    data,        \* fetch_feed's data: the parsed payload, None before
    info_df,     \* get_combined_station_data's info_df
    status_df,   \* get_combined_station_data's status_df
    combined,    \* get_combined_station_data's combined
    divided,     \* for every row of combined, whether line 107 divided
    result,      \* what the client got: nothing yet, a value, or an exception
    inflight,    \* the feeds whose HTTP request awaits its answer
    requests,    \* the feeds requested during this call, in order
    received,    \* the payloads the server answered with during this call
    failed,      \* the feeds whose request ended with a RequestException
    files,       \* the files written during this call
    writeFailed, \* the files whose write failed during this call
    merged,      \* whether line 83 ran during this call
    printed,     \* the messages printed during this call
    fetcher      \* the fields of the BIXIDataFetcher: base_url and data_dir

\* main_workflow.py: the module, the BIXIGenAIPipeline and its running
\* run_full_pipeline.
VARIABLES
    step,             \* where the program stands, from "start" to "end"
    ARCPY_AVAILABLE,  \* whether arcpy_mapping could be imported
    openai_client,    \* self.openai_client: "None" or "OpenAIClient"
    use_genai,        \* run_full_pipeline's argument
    create_map,       \* run_full_pipeline's argument
    combined_data,    \* what step 1 got from get_combined_station_data
    results,          \* run_full_pipeline's results
    outcome,          \* what the caller got: nothing yet, a value, or an exception
    calls,            \* the services called during this run, in order
    errors,           \* the failures met during this run, each with its step
    outputs,          \* the files written during this run
    workflow          \* the running create_bixi_map_workflow: see NoWorkflow

fetcherVars == <<pc, op, feed, data, info_df, status_df, combined, divided, result,
                 inflight, requests, received, failed, files, writeFailed, merged, printed>>

pipelineVars == <<step, ARCPY_AVAILABLE, openai_client, use_genai, create_map,
                  combined_data, results, outcome, calls, errors, outputs, workflow>>

vars == <<fetcherVars, fetcher, pipelineVars>>

NoResult == [kind |-> "none", exc |-> "none", data |-> None, df |-> EmptyFrame]
Returned(payload, df) == [kind |-> "return", exc |-> "none", data |-> payload, df |-> df]
Raised(e) == [kind |-> "raise", exc |-> e, data |-> None, df |-> EmptyFrame]

\* BIXIDataFetcher.__init__, lines 17-18.
NewFetcher == [base_url |-> BIXI_GBFS_BASE_URL, data_dir |-> DATA_DIR]

\* What the caller of the constructor or of run_full_pipeline got.
Nothing == [kind |-> "none", exc |-> "none"]

\* An entry of results that is None, and lines 53-58: the results
\* run_full_pipeline starts with.  An entry is [null, success, error, keys]:
\* whether it is None and, when it is a dict, its "success", its "error"
\* ("none" without one) and the other keys it has.
NullEntry == [null |-> TRUE, success |-> FALSE, error |-> "none", keys |-> {}]
NoResults == [data_fetch |-> NullEntry, genai_analysis |-> NullEntry, map_creation |-> NullEntry]

\* create_bixi_map_workflow when it does not run.  status is "idle",
\* "running", "returned" or "raised"; at is the number of the step that runs
\* next; ran lists the steps that ran, in order; warned holds the steps that
\* failed with a warning only; exc is the exception of the step that raised.
NoWorkflow == [status |-> "idle", at |-> 0, ran |-> <<>>, warned |-> {}, exc |-> "none"]

\* main_workflow.py before it is imported.
PipelineInit ==
    /\ step = "start"
    /\ ARCPY_AVAILABLE = FALSE
    /\ openai_client = "None"
    /\ use_genai = FALSE
    /\ create_map = FALSE
    /\ combined_data = EmptyFrame
    /\ results = NoResults
    /\ outcome = Nothing
    /\ calls = <<>>
    /\ errors = {}
    /\ outputs = {}
    /\ workflow = NoWorkflow

Init ==
    /\ fetcher = NewFetcher
    /\ PipelineInit
    /\ pc = "idle"
    /\ op = "none"
    /\ feed = "none"
    /\ data = None
    /\ info_df = EmptyFrame
    /\ status_df = EmptyFrame
    /\ combined = EmptyFrame
    /\ divided = <<>>
    /\ result = NoResult
    /\ inflight = {}
    /\ requests = <<>>
    /\ received = {}
    /\ failed = {}
    /\ files = {}
    /\ writeFailed = {}
    /\ merged = FALSE
    /\ printed = {}

\* The file fetch_feed writes the raw payload of a feed to (line 43).
RawFile(name) == name \o ".json"
\* The file get_combined_station_data writes the merged table to (line 114).
CombinedFile == "combined_stations.csv"

(***************************************************************************)
(* The client calls fetch_feed(name) (also through get_system_alerts and   *)
(* get_system_information) or get_combined_station_data().                 *)
(***************************************************************************)
CallFetchFeed(name) ==
    /\ pc = "idle"
    /\ op' = "fetch_feed"
    /\ feed' = name
    /\ pc' = "fetch_feed"
    /\ UNCHANGED <<data, info_df, status_df, combined, divided, result, inflight,
                   requests, received, failed, files, writeFailed, merged, printed>>
    /\ UNCHANGED <<fetcher, pipelineVars>>

\* Line 75 on the way in: get_station_information calls fetch_feed (line 56).
CallGetCombined ==
    /\ pc = "idle"
    /\ op' = "get_combined_station_data"
    /\ feed' = "station_information"
    /\ pc' = "fetch_feed"
    /\ UNCHANGED <<data, info_df, status_df, combined, divided, result, inflight,
                   requests, received, failed, files, writeFailed, merged, printed>>
    /\ UNCHANGED <<fetcher, pipelineVars>>

(***************************************************************************)
(* fetch_feed, lines 31-34: an unknown name raises ValueError; the URL is  *)
(* looked up in BIXI_FEEDS, which raises KeyError for a name it lacks.     *)
(***************************************************************************)
FetchCheck ==
    /\ pc = "fetch_feed"
    /\ IF ~KnownFeed(feed)
       THEN /\ result' = Raised("ValueError")
            /\ pc' = "done"
       ELSE IF feed \notin BIXI_FEEDS
       THEN /\ result' = Raised("KeyError")
            /\ pc' = "done"
       ELSE /\ pc' = "get"
            /\ UNCHANGED result
    /\ UNCHANGED <<op, feed, data, info_df, status_df, combined, divided, inflight,
                   requests, received, failed, files, writeFailed, merged, printed>>
    /\ UNCHANGED <<fetcher, pipelineVars>>

\* A send that does not wait: get_combined_station_data goes on to the
\* station_status fetch while the station_information request is in flight.
AsyncSend ==
    /\ pc = "get"
    /\ inflight' = inflight \cup {feed}
    /\ requests' = Append(requests, feed)
    /\ IF op = "get_combined_station_data" /\ feed = "station_information"
       THEN /\ feed' = "station_status"
            /\ pc' = "fetch_feed"
       ELSE /\ pc' = "wait"
            /\ UNCHANGED feed
    /\ UNCHANGED <<op, data, info_df, status_df, combined, divided, result,
                   received, failed, files, writeFailed, merged, printed>>
    /\ UNCHANGED <<fetcher, pipelineVars>>

\* Line 37: requests.get(url, timeout=10) sends the request and waits.
FetchSend ==
    /\ pc = "get"
    /\ inflight' = inflight \cup {feed}
    /\ requests' = Append(requests, feed)
    /\ pc' = "wait"
    /\ UNCHANGED <<op, feed, data, info_df, status_df, combined, divided, result,
                   received, failed, files, writeFailed, merged, printed>>
    /\ UNCHANGED <<fetcher, pipelineVars>>

\* Lines 37-39: the answer is a success and its body parses to payload.
FetchResponse(payload) ==
    /\ pc = "wait"
    /\ inflight' = inflight \ {feed}
    /\ data' = payload
    /\ received' = received \cup {[feed |-> feed, payload |-> payload]}
    /\ pc' = "save"
    /\ UNCHANGED <<op, feed, info_df, status_df, combined, divided, result,
                   requests, failed, files, writeFailed, merged, printed>>
    /\ UNCHANGED <<fetcher, pipelineVars>>

\* Lines 37-38 raise a RequestException e; lines 50-52 handle it.
FetchException(e) ==
    /\ pc = "wait"
    /\ inflight' = inflight \ {feed}
    /\ failed' = failed \cup {feed}
    /\ printed' = printed \cup {"Error fetching " \o feed}
    /\ LET h == OnRequestException(e)
       IN  IF h.exc = "none"
           THEN /\ data' = h.data
                /\ pc' = "return"
                /\ UNCHANGED result
           ELSE /\ result' = Raised(h.exc)
                /\ pc' = "done"
                /\ UNCHANGED data
    /\ UNCHANGED <<op, feed, info_df, status_df, combined, divided,
                   requests, received, files, writeFailed, merged>>
    /\ UNCHANGED <<fetcher, pipelineVars>>

\* A save that writes nothing and goes on to line 47.
SkipSave(written) ==
    /\ pc = "save"
    /\ pc' = "return"
    /\ UNCHANGED <<op, feed, data, info_df, status_df, combined, divided, result, inflight,
                   requests, received, failed, files, writeFailed, merged, printed>>
    /\ UNCHANGED <<fetcher, pipelineVars>>

(***************************************************************************)
(* Lines 41-47: the raw payload is written to a file; no handler catches   *)
(* the OSError of a failed write.  Line 47 then prints the number of       *)
(* stations with data.get('data', {}).get('stations', []), which raises    *)
(* AttributeError when "data" is null or a number.                         *)
(***************************************************************************)
FetchSave(written) ==
    /\ pc = "save"
    /\ IF ~written
       THEN /\ writeFailed' = writeFailed \cup {RawFile(feed)}
            /\ result' = Raised("OSError")
            /\ pc' = "done"
            /\ UNCHANGED <<files, printed>>
       ELSE /\ files' = files \cup {RawFile(feed)}
            /\ UNCHANGED writeFailed
            /\ IF data.shape = "data_scalar"
               THEN /\ result' = Raised("AttributeError")
                    /\ pc' = "done"
                    /\ UNCHANGED printed
               ELSE /\ printed' = printed \cup {"Fetched " \o feed}
                    /\ pc' = "return"
                    /\ UNCHANGED result
    /\ UNCHANGED <<op, feed, data, info_df, status_df, combined, divided, inflight,
                   requests, received, failed, merged>>
    /\ UNCHANGED <<fetcher, pipelineVars>>

\* Lines 48 and 52: fetch_feed returns data to the client that called it.
FetchReturn ==
    /\ pc = "return"
    /\ op = "fetch_feed"
    /\ result' = Returned(data, EmptyFrame)
    /\ pc' = "done"
    /\ UNCHANGED <<op, feed, data, info_df, status_df, combined, divided, inflight,
                   requests, received, failed, files, writeFailed, merged, printed>>
    /\ UNCHANGED <<fetcher, pipelineVars>>

\* Lines 56-59, then line 76 and 63: info_df is built and get_station_status
\* calls fetch_feed.
get_station_information ==
    /\ pc = "return"
    /\ op = "get_combined_station_data"
    /\ feed = "station_information"
    /\ LET t == StationTable(data)
       IN  IF t.exc = "none"
           THEN /\ info_df' = t.df
                /\ feed' = "station_status"
                /\ data' = None
                /\ pc' = "fetch_feed"
                /\ UNCHANGED result
           ELSE /\ result' = Raised(t.exc)
                /\ pc' = "done"
                /\ UNCHANGED <<info_df, feed, data>>
    /\ UNCHANGED <<op, status_df, combined, divided, inflight,
                   requests, received, failed, files, writeFailed, merged, printed>>
    /\ UNCHANGED <<fetcher, pipelineVars>>

\* Lines 63-66: status_df is built.
get_station_status ==
    /\ pc = "return"
    /\ op = "get_combined_station_data"
    /\ feed = "station_status"
    /\ LET t == StationTable(data)
       IN  IF t.exc = "none"
           THEN /\ status_df' = t.df
                /\ pc' = "merge"
                /\ UNCHANGED result
           ELSE /\ result' = Raised(t.exc)
                /\ pc' = "done"
                /\ UNCHANGED status_df
    /\ UNCHANGED <<op, feed, data, info_df, combined, divided, inflight,
                   requests, received, failed, files, writeFailed, merged, printed>>
    /\ UNCHANGED <<fetcher, pipelineVars>>

\* Lines 78-80: a table is empty; an empty table is returned.
MissingData ==
    /\ pc = "merge"
    /\ MissingStationData(info_df, status_df)
    /\ printed' = printed \cup {"Warning: Missing station data"}
    /\ result' = Returned(None, EmptyFrame)
    /\ pc' = "done"
    /\ UNCHANGED <<op, feed, data, info_df, status_df, combined, divided, inflight,
                   requests, received, failed, files, writeFailed, merged>>
    /\ UNCHANGED <<fetcher, pipelineVars>>

\* Lines 82-110: merge, coordinate normalization, availability metrics.
MergeAndDerive ==
    /\ pc = "merge"
    /\ ~MissingStationData(info_df, status_df)
    /\ merged' = TRUE
    /\ LET m == merge(info_df, status_df)
       IN  IF m.exc = "none"
           THEN /\ combined' = Derive(NormalizeCoordinates(m.df))
                /\ divided' = Divided(NormalizeCoordinates(m.df))
                /\ pc' = "to_csv"
                /\ UNCHANGED result
           ELSE /\ result' = Raised(m.exc)
                /\ pc' = "done"
                /\ UNCHANGED <<combined, divided>>
    /\ UNCHANGED <<op, feed, data, info_df, status_df, inflight,
                   requests, received, failed, files, writeFailed, printed>>
    /\ UNCHANGED <<fetcher, pipelineVars>>

\* Lines 112-118: the merged table is written to a CSV file and returned; no
\* handler catches the OSError of a failed write.
SaveCombined(written) ==
    /\ pc = "to_csv"
    /\ IF written
       THEN /\ files' = files \cup {CombinedFile}
            /\ printed' = printed \cup {"Saved combined data"}
            /\ result' = Returned(None, combined)
            /\ UNCHANGED writeFailed
       ELSE /\ writeFailed' = writeFailed \cup {CombinedFile}
            /\ result' = Raised("OSError")
            /\ UNCHANGED <<files, printed>>
    /\ pc' = "done"
    /\ UNCHANGED <<op, feed, data, info_df, status_df, combined, divided, inflight,
                   requests, received, failed, merged>>
    /\ UNCHANGED <<fetcher, pipelineVars>>

\* An end of call after which the fetcher still holds the merged table.
RetainTable ==
    /\ pc = "done"
    /\ pc' = "idle"
    /\ op' = "none"
    /\ feed' = "none"
    /\ data' = None
    /\ result' = NoResult
    /\ inflight' = {}
    /\ requests' = <<>>
    /\ received' = {}
    /\ failed' = {}
    /\ files' = {}
    /\ writeFailed' = {}
    /\ merged' = FALSE
    /\ printed' = {}
    /\ UNCHANGED <<info_df, status_df, combined, divided, fetcher, pipelineVars>>

\* The client has its result; the fetcher keeps nothing of the call.
Finish ==
    /\ pc = "done"
    /\ pc' = "idle"
    /\ op' = "none"
    /\ feed' = "none"
    /\ data' = None
    /\ info_df' = EmptyFrame
    /\ status_df' = EmptyFrame
    /\ combined' = EmptyFrame
    /\ divided' = <<>>
    /\ result' = NoResult
    /\ inflight' = {}
    /\ requests' = <<>>
    /\ received' = {}
    /\ failed' = {}
    /\ files' = {}
    /\ writeFailed' = {}
    /\ merged' = FALSE
    /\ printed' = {}
    /\ UNCHANGED <<fetcher, pipelineVars>>

Next ==
    \/ \E name \in FeedNames : CallFetchFeed(name)
    \/ CallGetCombined
    \/ FetchCheck
    \/ FetchSend
    \/ \E payload \in Payloads(feed) : FetchResponse(payload)
    \/ \E e \in RequestExceptions : FetchException(e)
    \/ \E written \in BOOLEAN : FetchSave(written)
    \/ FetchReturn
    \/ get_station_information
    \/ get_station_status
    \/ MissingData
    \/ MergeAndDerive
    \/ \E written \in BOOLEAN : SaveCombined(written)
    \/ Finish

Spec == Init /\ [][Next]_vars


(***************************************************************************)
(* main_workflow.py.  The module imports arcpy_mapping if it can;          *)
(* BIXIGenAIPipeline() builds the fetcher and, if it can, the OpenAI       *)
(* client; run_full_pipeline fetches the merged table (step 1), asks the   *)
(* AI service for an analysis (step 2), builds the map (step 3) and writes *)
(* a summary of its results.  The fetcher, the AI service, the map         *)
(* workflow and the disk are the environment of the pipeline: step 1 gets  *)
(* one of the results get_combined_station_data can end with.              *)
(***************************************************************************)
\* A str and a pathlib.Path.
Str(s) == [type |-> "str", s |-> s]
Path(s) == [type |-> "Path", s |-> s]

\* dir / name: a Path joins; a str has no operator / and raises TypeError.
Slash(dir, name) ==
    IF dir.type = "Path"
    THEN [exc |-> "none", path |-> dir.s \o "/" \o name]
    ELSE [exc |-> "TypeError", path |-> ""]

\* The values of config.OPENAI_API_KEY (config.py line 22): unset, or a key.
ApiKeys == {"", "sk-key"}

\* OpenAIClient.__init__ (openai_client.py lines 21-26).
OpenAIClient(api_key) ==
    IF api_key = ""
    THEN [exc |-> "ValueError", client |-> "None"]
    ELSE [exc |-> "none", client |-> "OpenAIClient"]

\* A constructor that lets the ValueError through.
FailFast(e) == [exc |-> e]

\* Lines 38-40: the ValueError of OpenAIClient() is caught; the constructor
\* prints a warning and continues without GenAI features.
ContinueWithoutGenAI(e) == [exc |-> "none"]

\* The dicts run_full_pipeline puts into results.
Success(keys) == [null |-> FALSE, success |-> TRUE, error |-> "none", keys |-> keys]
Failure(e) == [null |-> FALSE, success |-> FALSE, error |-> e, keys |-> {}]

\* What get_combined_station_data can end with: an exception, the empty
\* table, or the table of two payloads of one station each.
FetchExceptions == {"OSError", "AttributeError"}
FetchOutcomes ==
    {Raised(e) : e \in FetchExceptions}
    \cup {Returned(None, EmptyFrame)}
    \cup {Returned(None, TableOf(Payload("stations", <<InfoEntry(1, coords)>>),
                                  Payload("stations", <<StatusEntry(id, b, d)>>))) :
            coords \in CoordinateKeys, id \in StationIds,
            b \in {Num(1), Text}, d \in PlainCounts}

\* _create_data_summary (lines 197-228) formats the mean of each count
\* column; the mean of a column that holds a string raises TypeError.
SummaryFails(df) ==
    \E c \in {"num_bikes_available", "num_docks_available"} \cap df.cols :
        \E i \in DOMAIN df.rows : df.rows[i][c].k \in {"numstr", "text"}

\* The files of a run; the timestamp of their names is left out.
LatestFile == "data/latest_combined.csv"
AnalysisFile == "genai_analysis.txt"
DesignFile == "map_design_recommendations.txt"
SummaryFile == "pipeline_results.json"

\* Lines 16-23: arcpy_mapping is imported, or ImportError is caught.
ImportModule(available) ==
    /\ step = "start"
    /\ ARCPY_AVAILABLE' = available
    /\ step' = "imported"
    /\ UNCHANGED <<openai_client, use_genai, create_map, combined_data, results,
                   outcome, calls, errors, outputs>>
    /\ UNCHANGED <<fetcherVars, fetcher, workflow>>

\* Lines 29-40: BIXIGenAIPipeline().
Construct(api_key) ==
    /\ step = "imported"
    /\ LET c == OpenAIClient(api_key)
           h == ContinueWithoutGenAI(c.exc)
       IN  IF c.exc = "none" \/ h.exc = "none"
           THEN /\ openai_client' = c.client
                /\ step' = "constructed"
                /\ UNCHANGED outcome
           ELSE /\ outcome' = [kind |-> "raise", exc |-> h.exc]
                /\ step' = "end"
                /\ UNCHANGED openai_client
    /\ UNCHANGED <<ARCPY_AVAILABLE, use_genai, create_map, combined_data, results,
                   calls, errors, outputs>>
    /\ UNCHANGED <<fetcherVars, fetcher, workflow>>

\* Lines 42-58: run_full_pipeline(use_genai, create_map) is called.
run_full_pipeline(genai, map) ==
    /\ step = "constructed"
    /\ use_genai' = genai
    /\ create_map' = map
    /\ results' = NoResults
    /\ combined_data' = EmptyFrame
    /\ outcome' = Nothing
    /\ calls' = <<>>
    /\ errors' = {}
    /\ outputs' = {}
    /\ workflow' = NoWorkflow
    /\ step' = "step1"
    /\ UNCHANGED <<ARCPY_AVAILABLE, openai_client>>
    /\ UNCHANGED <<fetcherVars, fetcher>>

\* A step 1 that goes on to step 2 whatever the fetch ended with.
ContinueAfterFetch(fetched, written) ==
    /\ step = "step1"
    /\ calls' = Append(calls, "get_combined_station_data")
    /\ IF fetched.kind = "raise"
       THEN /\ results' = [results EXCEPT !.data_fetch = Failure(fetched.exc)]
            /\ errors' = errors \cup {[step |-> "data_fetch", error |-> fetched.exc]}
       ELSE /\ results' = [results EXCEPT
                              !.data_fetch = Success({"num_stations", "columns", "csv_path"})]
            /\ UNCHANGED errors
    /\ combined_data' = fetched.df
    /\ step' = "step2"
    /\ UNCHANGED <<ARCPY_AVAILABLE, openai_client, use_genai, create_map, outcome, outputs>>
    /\ UNCHANGED <<fetcherVars, fetcher, workflow>>

\* Lines 66-92, step 1: the merged table is fetched and written once more.
Step1(fetched, written) ==
    /\ step = "step1"
    /\ calls' = Append(calls, "get_combined_station_data")
    /\ IF fetched.kind = "raise"
       THEN \* lines 87-92
            /\ results' = [results EXCEPT !.data_fetch = Failure(fetched.exc)]
            /\ errors' = errors \cup {[step |-> "data_fetch", error |-> fetched.exc]}
            /\ outcome' = [kind |-> "return", exc |-> "none"]
            /\ step' = "end"
            /\ UNCHANGED <<combined_data, outputs>>
       ELSE IF empty(fetched.df)
       THEN \* lines 69-71
            /\ errors' = errors \cup {[step |-> "data_fetch", error |-> "no stations"]}
            /\ outcome' = [kind |-> "return", exc |-> "none"]
            /\ step' = "end"
            /\ combined_data' = fetched.df
            /\ UNCHANGED <<results, outputs>>
       ELSE IF written
       THEN \* lines 73-85
            /\ results' = [results EXCEPT
                              !.data_fetch = Success({"num_stations", "columns", "csv_path"})]
            /\ outputs' = outputs \cup {LatestFile}
            /\ combined_data' = fetched.df
            /\ step' = "step2"
            /\ UNCHANGED <<errors, outcome>>
       ELSE \* line 82 raises, lines 87-92
            /\ results' = [results EXCEPT !.data_fetch = Failure("OSError")]
            /\ errors' = errors \cup {[step |-> "data_fetch", error |-> "OSError"]}
            /\ outcome' = [kind |-> "return", exc |-> "none"]
            /\ combined_data' = fetched.df
            /\ step' = "end"
            /\ UNCHANGED outputs
    /\ UNCHANGED <<ARCPY_AVAILABLE, openai_client, use_genai, create_map>>
    /\ UNCHANGED <<fetcherVars, fetcher, workflow>>

\* Lines 97-142, the try block of step 2 and its handler: the entry for
\* results["genai_analysis"], the services called and the files written.
\* analysis and design are what analyze_data and
\* get_map_design_recommendations return ("success" or "failure": both catch
\* every exception of the API call); wroteAnalysis and wroteDesign tell
\* whether the file could be written.
GenAIStep(df, analysis, design, wroteAnalysis, wroteDesign) ==
    LET analysisPath == Slash(Str(OUTPUT_DIR), AnalysisFile)    \* line 112
        designPath == Slash(Str(OUTPUT_DIR), DesignFile)        \* line 127
    IN  IF SummaryFails(df)
        THEN [entry |-> Failure("TypeError"), called |-> <<>>, wrote |-> {}]
        ELSE IF analysis = "failure"
        THEN [entry |-> Failure("APIError"), called |-> <<"analyze_data">>, wrote |-> {}]
        ELSE IF analysisPath.exc # "none"
        THEN [entry |-> Failure(analysisPath.exc), called |-> <<"analyze_data">>, wrote |-> {}]
        ELSE IF ~wroteAnalysis
        THEN [entry |-> Failure("OSError"), called |-> <<"analyze_data">>, wrote |-> {}]
        ELSE IF design = "failure"
        THEN [entry |-> Success({"analysis", "model", "file_path"}),
              called |-> <<"analyze_data", "get_map_design_recommendations">>,
              wrote |-> {analysisPath.path}]
        ELSE IF designPath.exc # "none"
        THEN [entry |-> Failure(designPath.exc),
              called |-> <<"analyze_data", "get_map_design_recommendations">>,
              wrote |-> {analysisPath.path}]
        ELSE IF ~wroteDesign
        THEN [entry |-> Failure("OSError"),
              called |-> <<"analyze_data", "get_map_design_recommendations">>,
              wrote |-> {analysisPath.path}]
        ELSE [entry |-> Success({"analysis", "model", "file_path", "design_recommendations"}),
              called |-> <<"analyze_data", "get_map_design_recommendations">>,
              wrote |-> {analysisPath.path, designPath.path}]

\* A step 2 that ends the run when the GenAI step fails.
StopAfterGenAIFailure(analysis, design, wroteAnalysis, wroteDesign) ==
    /\ step = "step2"
    /\ IF use_genai /\ openai_client # "None"
       THEN LET r == GenAIStep(combined_data, analysis, design, wroteAnalysis, wroteDesign)
            IN  /\ results' = [results EXCEPT !.genai_analysis = r.entry]
                /\ calls' = calls \o r.called
                /\ outputs' = outputs \cup r.wrote
                /\ errors' = IF r.entry.success THEN errors
                             ELSE errors \cup {[step |-> "genai_analysis", error |-> r.entry.error]}
                /\ step' = IF r.entry.success THEN "step3" ELSE "end"
                /\ outcome' = IF r.entry.success THEN outcome
                              ELSE [kind |-> "return", exc |-> "none"]
       ELSE /\ step' = "step3"
            /\ UNCHANGED <<results, calls, outputs, errors, outcome>>
    /\ UNCHANGED <<ARCPY_AVAILABLE, openai_client, use_genai, create_map, combined_data>>
    /\ UNCHANGED <<fetcherVars, fetcher, workflow>>

\* Lines 95-144, step 2.
Step2(analysis, design, wroteAnalysis, wroteDesign) ==
    /\ step = "step2"
    /\ IF use_genai /\ openai_client # "None"
       THEN LET r == GenAIStep(combined_data, analysis, design, wroteAnalysis, wroteDesign)
            IN  /\ results' = [results EXCEPT !.genai_analysis = r.entry]
                /\ calls' = calls \o r.called
                /\ outputs' = outputs \cup r.wrote
                /\ errors' = IF r.entry.success THEN errors
                             ELSE errors \cup {[step |-> "genai_analysis", error |-> r.entry.error]}
       ELSE UNCHANGED <<results, calls, outputs, errors>>
    /\ step' = "step3"
    /\ UNCHANGED <<ARCPY_AVAILABLE, openai_client, use_genai, create_map, combined_data, outcome>>
    /\ UNCHANGED <<fetcherVars, fetcher, workflow>>

\* Lines 147-170, step 3 up to the call of create_bixi_map_workflow.
Step3 ==
    /\ step = "step3"
    /\ IF ~create_map
       THEN /\ step' = "summary"
            /\ UNCHANGED <<results, calls, errors, outcome, workflow>>
       ELSE IF ~ARCPY_AVAILABLE
       THEN \* lines 151-159
            /\ results' = [results EXCEPT
                              !.map_creation = Failure("ArcPy not available outside ArcGIS Pro")]
            /\ errors' = errors \cup {[step |-> "map_creation",
                                        error |-> "ArcPy not available outside ArcGIS Pro"]}
            /\ outcome' = [kind |-> "return", exc |-> "none"]
            /\ step' = "end"
            /\ UNCHANGED <<calls, workflow>>
       ELSE \* lines 164-170
            /\ calls' = Append(calls, "create_bixi_map_workflow")
            /\ workflow' = [NoWorkflow EXCEPT !.status = "running", !.at = 1]
            /\ step' = "workflow"
            /\ UNCHANGED <<results, errors, outcome>>
    /\ UNCHANGED <<ARCPY_AVAILABLE, openai_client, use_genai, create_map, combined_data, outputs>>
    /\ UNCHANGED <<fetcherVars, fetcher>>

(***************************************************************************)
(* arcpy_mapping.py, create_bixi_map_workflow (lines 297-323): the mapper  *)
(* is built and its methods are called one after the other inside one try  *)
(* block, whose handler prints the exception and raises it again.  Every   *)
(* method has its own try block: its handler either raises the exception   *)
(* again or only prints a warning.                                         *)
(***************************************************************************)
\* Lines 298-317: the steps, in the order of the calls.
WorkflowSteps ==
    <<"ArcPyMapper", "create_feature_class_from_csv", "add_layer_to_map",
      "style_layer_by_field", "create_layout", "add_layout_elements",
      "export_map", "save_project">>

\* Handlers that all only warn.
OnlyWarn(method) == "warn"

\* What the handler of a method does with an exception: lines 33-34, 80-82,
\* 118-120, 152-154 and 242-244 raise; lines 203-204, 271-272 and 279-280
\* print a warning.
Handler(method) ==
    IF method \in {"style_layer_by_field", "add_layout_elements", "save_project"}
    THEN "warn"
    ELSE "raise"

\* Lines 47-61: the CSV file has a longitude column and a latitude column.
HasCoordinates(df) ==
    /\ "lon" \in df.cols \/ "longitude" \in df.cols
    /\ "lat" \in df.cols \/ "latitude" \in df.cols

\* The file export_map writes (lines 226-231); the timestamp is left out.
MapFile == "output/BIXI_Map.pdf"

\* One step of the workflow runs.  broke tells whether ArcGIS made it
\* fail; create_feature_class_from_csv also fails, with ValueError, on a
\* table without coordinate columns.
WorkflowStep(broke) ==
    /\ step = "workflow"
    /\ workflow.status = "running"
    /\ LET method == WorkflowSteps[workflow.at]
           blind == method = "create_feature_class_from_csv" /\ ~HasCoordinates(combined_data)
           fails == broke \/ blind
           exc == IF method = "ArcPyMapper" \/ blind THEN "ValueError" ELSE "ExecuteError"
           ran == Append(workflow.ran, method)
           warned == IF fails THEN workflow.warned \cup {method} ELSE workflow.warned
       IN  /\ workflow' =
                 IF fails /\ Handler(method) = "raise"
                 THEN [workflow EXCEPT !.status = "raised", !.ran = ran, !.exc = exc]
                 ELSE IF workflow.at = Len(WorkflowSteps)
                 THEN [workflow EXCEPT !.status = "returned", !.ran = ran, !.warned = warned]
                 ELSE [workflow EXCEPT !.at = @ + 1, !.ran = ran, !.warned = warned]
           /\ outputs' = IF method = "export_map" /\ ~fails
                         THEN outputs \cup {MapFile} ELSE outputs
    /\ UNCHANGED <<step, ARCPY_AVAILABLE, openai_client, use_genai, create_map, combined_data,
                   results, outcome, calls, errors>>
    /\ UNCHANGED <<fetcherVars, fetcher>>

\* Lines 172-181: the workflow returned the path of the map, or raised.
Step3End ==
    /\ step = "workflow"
    /\ workflow.status \in {"returned", "raised"}
    /\ IF workflow.status = "returned"
       THEN /\ results' = [results EXCEPT !.map_creation = Success({"output_path"})]
            /\ UNCHANGED errors
       ELSE /\ results' = [results EXCEPT !.map_creation = Failure(workflow.exc)]
            /\ errors' = errors \cup {[step |-> "map_creation", error |-> workflow.exc]}
    /\ step' = "summary"
    /\ UNCHANGED <<ARCPY_AVAILABLE, openai_client, use_genai, create_map, combined_data,
                   outcome, calls, outputs, workflow>>
    /\ UNCHANGED <<fetcherVars, fetcher>>

\* Lines 185-195: the summary of the results is written, outside every try
\* block, and the results are returned.
SaveSummary(written) ==
    /\ step = "summary"
    /\ LET results_path == Slash(Path(OUTPUT_DIR), SummaryFile)
       IN  IF results_path.exc # "none"
           THEN /\ outcome' = [kind |-> "raise", exc |-> results_path.exc]
                /\ errors' = errors \cup {[step |-> "summary", error |-> results_path.exc]}
                /\ UNCHANGED outputs
           ELSE IF written
           THEN /\ outputs' = outputs \cup {results_path.path}
                /\ outcome' = [kind |-> "return", exc |-> "none"]
                /\ UNCHANGED errors
           ELSE /\ outcome' = [kind |-> "raise", exc |-> "OSError"]
                /\ errors' = errors \cup {[step |-> "summary", error |-> "OSError"]}
                /\ UNCHANGED outputs
    /\ step' = "end"
    /\ UNCHANGED <<ARCPY_AVAILABLE, openai_client, use_genai, create_map, combined_data,
                   results, calls>>
    /\ UNCHANGED <<fetcherVars, fetcher, workflow>>

\* The run has ended; the caller may run the pipeline again.
Again ==
    /\ step = "end"
    /\ calls # <<>>
    /\ step' = "constructed"
    /\ UNCHANGED <<ARCPY_AVAILABLE, openai_client, use_genai, create_map, combined_data,
                   results, outcome, calls, errors, outputs>>
    /\ UNCHANGED <<fetcherVars, fetcher, workflow>>

PipelineNext ==
    \/ \E available \in BOOLEAN : ImportModule(available)
    \/ \E api_key \in ApiKeys : Construct(api_key)
    \/ \E genai, map \in BOOLEAN : run_full_pipeline(genai, map)
    \/ \E fetched \in FetchOutcomes, written \in BOOLEAN : Step1(fetched, written)
    \/ \E analysis, design \in {"success", "failure"}, wroteAnalysis, wroteDesign \in BOOLEAN :
          Step2(analysis, design, wroteAnalysis, wroteDesign)
    \/ Step3
    \/ \E broke \in BOOLEAN : WorkflowStep(broke)
    \/ Step3End
    \/ \E written \in BOOLEAN : SaveSummary(written)
    \/ Again

PipelineSpec == Init /\ [][PipelineNext]_vars

(***************************************************************************)
(* Properties.                                                             *)
(***************************************************************************)
\* The table the client got from get_combined_station_data, if it got one.
ReturnedTable == op = "get_combined_station_data" /\ pc = "done" /\ result.kind = "return"

\* v is a number in [0, 1].
InUnitInterval(v) == v.k = "num" /\ 0 <= v.n /\ v.n <= v.d

\* The payload the server answered with for a feed during this call.
Received(name) == {r.payload : r \in {x \in received : x.feed = name}}
\* The station identifiers a feed's payload lists.
FeedIds(name) ==
    UNION {{p.stations[i]["station_id"] : i \in DOMAIN p.stations} : p \in Received(name)}

\* C1 (as claimed): every row of the table get_combined_station_data returns
\* has a utilization_rate between 0.0 and 1.0, whatever the counts of its
\* feed row.
C1_UtilizationInUnitInterval ==
    ReturnedTable /\ "utilization_rate" \in result.df.cols =>
        \A i \in DOMAIN result.df.rows : InUnitInterval(result.df.rows[i]["utilization_rate"])

\* C1 (amended): every row of the returned table whose coerced bike count and
\* coerced dock count are both at least 0 has a utilization_rate between 0.0
\* and 1.0.
C1_UtilizationInUnitIntervalNonNegative ==
    ReturnedTable /\ "utilization_rate" \in result.df.cols =>
        \A i \in DOMAIN result.df.rows :
            LET row == result.df.rows[i]
            IN  row["num_bikes_available"].n >= 0 /\ row["num_docks_available"].n >= 0
                    => InUnitInterval(row["utilization_rate"])

\* A returned row with non-negative counts and a rate strictly inside (0, 1).
C1_Witness ==
    /\ ReturnedTable
    /\ "utilization_rate" \in result.df.cols
    /\ \E i \in DOMAIN result.df.rows :
          LET row == result.df.rows[i]
          IN  /\ row["num_bikes_available"].n > 0
              /\ row["num_docks_available"].n > 0
              /\ row["utilization_rate"].n < row["utilization_rate"].d
              /\ row["utilization_rate"].n > 0

\* C2: every merged row whose total_capacity is 0 has utilization_rate exactly
\* 0.0, line 107 did not divide for it, and no row holds the outcome of a
\* division by zero.
C2_ZeroCapacityGivesZero ==
    "utilization_rate" \in combined.cols =>
        \A i \in DOMAIN combined.rows :
            LET row == combined.rows[i]
            IN  /\ row["utilization_rate"] # DivFault
                /\ row["total_capacity"].n = 0 =>
                      /\ row["utilization_rate"] = Num(0)
                      /\ ~divided[i]

\* A returned table with a row of total capacity 0 next to a row that divided.
C2_Witness ==
    /\ ReturnedTable
    /\ "utilization_rate" \in result.df.cols
    /\ \E i \in DOMAIN result.df.rows : result.df.rows[i]["total_capacity"].n = 0
    /\ \E i \in DOMAIN result.df.rows : divided[i]

\* C3: a station identifier is in the table get_combined_station_data builds
\* and returns only if both the station_information payload and the
\* station_status payload list it.
C3_InnerJoin ==
    /\ \A i \in DOMAIN combined.rows :
          combined.rows[i]["station_id"] \in FeedIds("station_information") \cap FeedIds("station_status")
    /\ ReturnedTable =>
          \A i \in DOMAIN result.df.rows :
              result.df.rows[i]["station_id"] \in FeedIds("station_information") \cap FeedIds("station_status")

\* A returned table with rows, while station_information lists a station that
\* station_status lacks.
C3_Witness ==
    /\ ReturnedTable
    /\ result.df.rows # <<>>
    /\ FeedIds("station_information") \ FeedIds("station_status") # {}

\* C4: fetch_feed with a name that is no key of BIXI_FEEDS raises ValueError
\* (the configuration error) without having sent a request or written a file.
C4_UnknownFeedFailsBeforeNetwork ==
    feed \notin BIXI_FEEDS /\ feed # "none" =>
        /\ requests = <<>>
        /\ inflight = {}
        /\ files = {}
        /\ pc \in {"fetch_feed", "done"}
        /\ pc = "done" => result = Raised("ValueError")

\* fetch_feed has ended for an unknown name.
C4_Witness ==
    /\ op = "fetch_feed"
    /\ feed \notin BIXI_FEEDS
    /\ pc = "done"
    /\ result.kind = "raise"

\* C5 (as claimed): when the request of fetch_feed ends with a
\* RequestException (connection error, timeout, status that is no success),
\* fetch_feed raises an error to its caller.
C5_FetchErrorRaised ==
    op = "fetch_feed" /\ feed \in failed /\ pc = "done" => result.kind = "raise"

\* C5 (amended): when the request of fetch_feed ends with a RequestException,
\* fetch_feed prints an error message naming the feed, writes no file and
\* returns None to its caller; it raises nothing.
C5_FetchErrorReturnsNone ==
    op = "fetch_feed" /\ feed \in failed =>
        /\ files = {}
        /\ ("Error fetching " \o feed) \in printed
        /\ pc \in {"return", "done"}
        /\ data = None
        /\ pc = "done" => result = Returned(None, EmptyFrame)

\* fetch_feed has ended after a failed request.
C5_Witness ==
    op = "fetch_feed" /\ feed \in failed /\ pc = "done" /\ requests = <<feed>>

\* The payload received for a feed is an object without a data.stations list:
\* {}, no "data" member, or a "data" object without "stations".
LacksStations(name) ==
    \E p \in Received(name) : p.shape \in {"empty", "no_data", "no_stations"}

\* get_combined_station_data is past line 75: info_df is built.
InfoBuilt == op = "get_combined_station_data" /\ feed = "station_status"
\* get_combined_station_data is past line 76: status_df is built.
StatusBuilt == op = "get_combined_station_data" /\ pc \in {"merge", "to_csv"}

\* C6 (as claimed): when a fetched payload lacks the data.stations list,
\* building its table fails with MalformedFeedError: no table is built and
\* the call ends with that error.
C6_MalformedFeedRaises ==
    /\ LacksStations("station_information") => ~InfoBuilt
    /\ LacksStations("station_status") => ~StatusBuilt
    /\ op = "get_combined_station_data" /\ pc = "done"
         /\ (LacksStations("station_information") \/ LacksStations("station_status"))
         /\ writeFailed = {}
         => result = Raised("MalformedFeedError")

\* C6 (amended): when fetch_feed returns a payload that is an object without
\* a data.stations list, get_station_information and get_station_status
\* return an empty table and raise nothing: the call goes on, and ends with
\* the empty table unless fetch_feed raised (a file could not be written, or
\* the "data" of the other payload is null or a number).
C6_MalformedFeedGivesEmptyTable ==
    /\ LacksStations("station_information") /\ InfoBuilt => info_df = EmptyFrame
    /\ LacksStations("station_status") /\ StatusBuilt => status_df = EmptyFrame
    /\ op = "get_combined_station_data" /\ pc = "done"
         /\ (LacksStations("station_information") \/ LacksStations("station_status"))
         => \/ result = Returned(None, EmptyFrame)
            \/ result = Raised("OSError") /\ writeFailed # {}
            \/ /\ result = Raised("AttributeError")
               /\ \E r \in received : r.payload.shape = "data_scalar"

\* Both tables are built, the station_status one from a payload without
\* data.stations and the station_information one from a list of stations.
C6_Witness ==
    /\ StatusBuilt
    /\ LacksStations("station_status")
    /\ ~empty(info_df)

\* C7: if the request of either feed fails during get_combined_station_data,
\* line 83 does not run, no merged table exists, and the caller gets an empty
\* table or an exception: never rows of the feed that succeeded.
C7_FetchFailureAbortsMerge ==
    op = "get_combined_station_data" /\ failed # {} =>
        /\ ~merged
        /\ combined = EmptyFrame
        /\ pc = "done" =>
              \/ result.kind = "raise"
              \/ result = Returned(None, EmptyFrame)

\* The station_information feed came with stations, the station_status
\* request failed, and the caller got the empty table.
C7_Witness ==
    /\ op = "get_combined_station_data"
    /\ failed = {"station_status"}
    /\ ~empty(info_df)
    /\ pc = "done"
    /\ result = Returned(None, EmptyFrame)

\* C8 (as claimed): a failed write of the raw payload or of the merged table
\* does not fail the call: the payload or the table is still returned.
C8_WriteFailureNonFatal ==
    pc = "done" /\ writeFailed # {} => result.kind = "return"

\* The merged table before lines 96-110.
RawMerged == NormalizeCoordinates(merge(info_df, status_df).df)
CountColumns == {"num_bikes_available", "num_docks_available"}
\* What the claim says a count becomes: 0 when it spells no number or is
\* missing, its number otherwise.
ClaimedCount(v) == IF v.k \in {"num", "numstr"} THEN Num(v.n) ELSE Num(0)

\* C9 (as claimed): in every merged row, a bike or dock count that spells no
\* number or is missing has become 0, and one that spells a number still
\* denotes that number.
C9_CountsCoerced ==
    op = "get_combined_station_data" /\ merged /\ pc = "to_csv" =>
        \A i \in DOMAIN combined.rows : \A c \in CountColumns \cap combined.cols :
            IF RawMerged.rows[i][c].k \in {"num", "numstr"}
            THEN /\ combined.rows[i][c].k \in {"num", "numstr"}
                 /\ combined.rows[i][c].n = RawMerged.rows[i][c].n
            ELSE combined.rows[i][c] = Num(0)

\* C9 (amended): in every row of a merged table that has both count columns,
\* a bike or dock count that spells no number or is missing has become 0, and
\* one that spells a number has become that number; the merge and lines
\* 96-110 raise nothing.
C9_CountsCoercedWhenBothColumns ==
    op = "get_combined_station_data" /\ merged =>
        /\ pc \in {"to_csv", "done"}
        /\ result.exc \in {"none", "OSError"}
        /\ pc = "to_csv" /\ CountColumns \subseteq combined.cols =>
              \A i \in DOMAIN combined.rows : \A c \in CountColumns :
                  combined.rows[i][c] = ClaimedCount(RawMerged.rows[i][c])

\* A merged table with both count columns, in which a bike count that spelled
\* no number is now 0 and a dock count spelled as a string is now its number.
C9_Witness ==
    /\ op = "get_combined_station_data" /\ merged /\ pc = "to_csv"
    /\ CountColumns \subseteq combined.cols
    /\ \E i \in DOMAIN combined.rows :
          /\ RawMerged.rows[i]["num_bikes_available"] = Text
          /\ combined.rows[i]["num_bikes_available"] = Num(0)
          /\ RawMerged.rows[i]["num_docks_available"] = NumStr(1)
          /\ combined.rows[i]["num_docks_available"] = Num(1)

\* Both payloads list stations (station_status possibly none) and no station
\* is in both.
NoSharedStation ==
    /\ \E p \in Received("station_information") : p.shape = "stations"
    /\ \E p \in Received("station_status") : p.shape = "stations"
    /\ FeedIds("station_information") \cap FeedIds("station_status") = {}

\* C10 (as claimed): when the two feeds share no station identifier,
\* get_combined_station_data returns a table without rows and raises nothing.
C10_NoSharedStationGivesEmptyTable ==
    op = "get_combined_station_data" /\ pc = "done" /\ NoSharedStation =>
        result.kind = "return" /\ result.df.rows = <<>>

\* The station entries of the station_information payload of this call.
InfoStations ==
    UNION {{p.stations[i] : i \in DOMAIN p.stations} : p \in Received("station_information")}

\* The feed names the longitude `x` and the latitude `y`.
UsesConvention(x, y) ==
    /\ InfoStations # {}
    /\ \A e \in InfoStations : x \in DOMAIN e /\ y \in DOMAIN e

\* Every row of df has the coordinates of its station, as the feed names them
\* x and y, in the columns lon and lat.
CarriesCoordinates(df, x, y) ==
    /\ {"lon", "lat"} \subseteq df.cols
    /\ \A i \in DOMAIN df.rows :
          \E e \in InfoStations :
              /\ e["station_id"] = df.rows[i]["station_id"]
              /\ df.rows[i]["lon"] = e[x]
              /\ df.rows[i]["lat"] = e[y]

\* C11: a merged table with rows, built from a station_information feed that
\* uses lon/lat or longitude/latitude, has the columns lon and lat, and they
\* hold for every row the coordinates the feed gives for the row's station;
\* so does the table get_combined_station_data returns.
C11_CanonicalCoordinates ==
    \A names \in {<<"lon", "lat">>, <<"longitude", "latitude">>} :
        UsesConvention(names[1], names[2]) =>
            /\ combined.rows # <<>> => CarriesCoordinates(combined, names[1], names[2])
            /\ ReturnedTable /\ result.df.rows # <<>> =>
                  CarriesCoordinates(result.df, names[1], names[2])

\* A table with rows is returned for a feed that names the coordinates
\* longitude and latitude.
C11_Witness ==
    /\ ReturnedTable
    /\ result.df.rows # <<>>
    /\ UsesConvention("longitude", "latitude")
    /\ "lon" \notin DOMAIN (CHOOSE e \in InfoStations : TRUE)
    /\ result.df.rows[1]["lon"] = Num(0 - result.df.rows[1]["station_id"].n)

\* C12: normalizing a normalized table changes nothing: the merged table as
\* lines 90-94 leave it, the table with the availability metrics, and the
\* returned table are all fixed points of the normalization, columns and
\* values alike.
C12_NormalizationIdempotent ==
    /\ pc = "to_csv" => NormalizeCoordinates(RawMerged) = RawMerged
    /\ NormalizeCoordinates(combined) = combined
    /\ ReturnedTable => NormalizeCoordinates(result.df) = result.df

\* The normalization changed the merged table: it has rows, and lon and lat
\* were copied from longitude and latitude.
C12_Witness ==
    /\ pc = "to_csv"
    /\ combined.rows # <<>>
    /\ RawMerged # merge(info_df, status_df).df
    /\ {"lon", "lat", "longitude", "latitude"} \subseteq RawMerged.cols

\* The count a merged row carries in column c before lines 99-100; a table
\* without the column carries none.
RawCount(i, c) == IF c \in RawMerged.cols THEN RawMerged.rows[i][c] ELSE Missing

\* The total_capacity and utilization_rate the claim gives a row with the
\* counts bikes and docks.
ClaimedTotal(bikes, docks) == Plus(ClaimedCount(bikes), ClaimedCount(docks))
ClaimedRate(bikes, docks) ==
    IF ClaimedTotal(bikes, docks).n > 0
    THEN Divide(ClaimedCount(bikes), ClaimedTotal(bikes, docks))
    ELSE Num(0)

\* Row i of the merged table, taken alone.
RowAlone(i) == [cols |-> RawMerged.cols, rows |-> <<RawMerged.rows[i]>>]

\* C13 (as claimed): every merged row has a total_capacity equal to its
\* coerced bike count plus its coerced dock count, and a utilization_rate
\* that follows from these two counts alone.
C13_TotalCapacityOfEveryRow ==
    pc = "to_csv" =>
        \A i \in DOMAIN combined.rows :
            /\ {"total_capacity", "utilization_rate"} \subseteq combined.cols
            /\ combined.rows[i]["total_capacity"] =
                  ClaimedTotal(RawCount(i, "num_bikes_available"), RawCount(i, "num_docks_available"))
            /\ combined.rows[i]["utilization_rate"] =
                  ClaimedRate(RawCount(i, "num_bikes_available"), RawCount(i, "num_docks_available"))

\* C13 (amended): in a merged table that has both count columns, every row
\* has a total_capacity equal to its coerced bike count plus its coerced dock
\* count and the utilization_rate of these two counts; the row is what
\* lines 96-110 make of it when it is the only row of the table; and bikes 3
\* with docks 7 give total_capacity 10 and utilization_rate 3/10.
C13_TotalCapacityWhenBothColumns ==
    /\ pc = "to_csv" /\ HasCounts(RawMerged) =>
          \A i \in DOMAIN combined.rows :
              /\ {"total_capacity", "utilization_rate"} \subseteq combined.cols
              /\ combined.rows[i]["total_capacity"] =
                    ClaimedTotal(RawCount(i, "num_bikes_available"), RawCount(i, "num_docks_available"))
              /\ combined.rows[i]["utilization_rate"] =
                    ClaimedRate(RawCount(i, "num_bikes_available"), RawCount(i, "num_docks_available"))
              /\ combined.rows[i] = Derive(RowAlone(i)).rows[1]
    /\ LET row == Derive(DataFrame(<<StatusEntry(1, Num(3), Num(7))>>)).rows[1]
       IN  row["total_capacity"] = Num(10) /\ row["utilization_rate"] = Ratio(3, 10)

\* A merged table of two rows, each with its own total_capacity and
\* utilization_rate.
C13_Witness ==
    /\ pc = "to_csv"
    /\ HasCounts(RawMerged)
    /\ Len(combined.rows) = 2
    /\ combined.rows[1]["total_capacity"] = Num(2)
    /\ combined.rows[2]["utilization_rate"] = Ratio(1, 2)

\* The stations both feeds list.
SharedIds == FeedIds("station_information") \cap FeedIds("station_status")

\* The rows of df that belong to station id.
RowsOf(df, id) == {i \in DOMAIN df.rows : df.rows[i]["station_id"] = id}

\* A feed's payload lists no station twice.
ListsOnce(name) ==
    \A p \in Received(name) :
        \A i, j \in DOMAIN p.stations :
            p.stations[i]["station_id"] = p.stations[j]["station_id"] => i = j

\* get_combined_station_data merged, wrote the table and returned it.
ReturnedMerged == ReturnedTable /\ merged

\* C14 (as claimed): every station both feeds list has exactly one row in the
\* table get_combined_station_data wrote and returned.
C14_OneRowPerStation ==
    ReturnedMerged => \A id \in SharedIds : Cardinality(RowsOf(result.df, id)) = 1

\* C14 (amended): when neither feed lists a station twice, the merged table
\* has exactly one row for every station both feeds list and no other row,
\* and the table returned is the table written to the CSV file.
C14_OneRowPerStationListedOnce ==
    /\ pc = "to_csv" /\ ListsOnce("station_information") /\ ListsOnce("station_status") =>
          /\ \A id \in SharedIds : Cardinality(RowsOf(combined, id)) = 1
          /\ Len(combined.rows) = Cardinality(SharedIds)
    /\ ReturnedMerged =>
          /\ CombinedFile \in files
          /\ result.df = combined
          /\ ListsOnce("station_information") /\ ListsOnce("station_status") =>
                /\ \A id \in SharedIds : Cardinality(RowsOf(result.df, id)) = 1
                /\ Len(result.df.rows) = Cardinality(SharedIds)

\* Two stations, each listed once by both feeds, and a returned table of two
\* rows.
C14_Witness ==
    /\ ReturnedMerged
    /\ ListsOnce("station_information")
    /\ ListsOnce("station_status")
    /\ Cardinality(SharedIds) = 2
    /\ Len(result.df.rows) = 2

\* The request for a feed has ended: with a response, or with an error or a
\* timeout.
Finished(name) ==
    /\ name \notin inflight
    /\ Received(name) # {} \/ name \in failed

\* C15: in get_combined_station_data at most one request is in flight, the
\* station_information request is the first one sent, and once the
\* station_status request has been sent the station_information request has
\* ended, with a response, an error or a timeout.
C15_FetchesSequential ==
    op = "get_combined_station_data" =>
        /\ Cardinality(inflight) <= 1
        /\ requests # <<>> => requests[1] = "station_information"
        /\ \A i \in DOMAIN requests :
              requests[i] = "station_status" => i = 2 /\ Finished("station_information")

\* The station_status request is in flight after the station_information
\* request timed out.
C15_Witness ==
    /\ op = "get_combined_station_data"
    /\ inflight = {"station_status"}
    /\ "station_information" \in failed

\* fetch_feed is about to hand, or has handed, a payload to its caller.
HandsPayload ==
    \/ pc = "return" /\ data # None
    \/ op = "fetch_feed" /\ pc = "done" /\ result.kind = "return" /\ result.data # None

\* C16: a raw snapshot file is written, or its write attempted, only for a
\* feed whose request ended with a parsed response; a feed whose request
\* failed has no raw file and no attempted write; and whenever fetch_feed
\* hands a payload to its caller the raw file of the feed has been written.
C16_RawSavedAfterResponseBeforeReturn ==
    /\ \A name \in FeedNames :
          /\ RawFile(name) \in files \cup writeFailed =>
                Received(name) # {} /\ name \notin failed /\ name \notin inflight
          /\ name \in failed => RawFile(name) \notin files \cup writeFailed
    /\ HandsPayload => RawFile(feed) \in files

\* The station_status payload is handed over with its raw file written, after
\* the station_information request failed and left no file.
C16_Witness ==
    /\ pc = "return"
    /\ feed = "station_status"
    /\ data.shape = "stations"
    /\ "station_information" \in failed
    /\ files = {RawFile("station_status")}

\* No feed was requested twice during this call.
NoFeedRequestedTwice ==
    \A i, j \in DOMAIN requests : requests[i] = requests[j] => i = j

\* C17 (as claimed): a fetch_feed call sends at most one request, no feed is
\* requested twice within a call, and a get_combined_station_data invocation
\* that has ended has sent exactly two requests, one for station_information
\* and one for station_status.
C17_OneRequestPerFeed ==
    /\ NoFeedRequestedTwice
    /\ op = "fetch_feed" => Len(requests) <= 1
    /\ op = "get_combined_station_data" /\ pc = "done" =>
          requests = <<"station_information", "station_status">>

\* C18: the fetcher's fields base_url and data_dir never change; between
\* invocations the fetcher holds no payload and no table; and the table an
\* invocation of get_combined_station_data returns is the table of the two
\* payloads received in that invocation, or the empty table when it did not
\* merge.
C18_NoStateAcrossInvocations ==
    /\ fetcher = [base_url |-> BIXI_GBFS_BASE_URL, data_dir |-> DATA_DIR]
    /\ pc = "idle" =>
          /\ data = None
          /\ info_df = EmptyFrame
          /\ status_df = EmptyFrame
          /\ combined = EmptyFrame
    /\ \A name \in FeedNames : Cardinality(Received(name)) <= 1
    /\ ReturnedTable =>
          IF merged
          THEN \E info \in Received("station_information"), status \in Received("station_status") :
                   result.df = TableOf(info, status)
          ELSE result.df = EmptyFrame

\* An invocation returned a table with rows, built from its two payloads.
C18_Witness ==
    /\ ReturnedMerged
    /\ result.df.rows # <<>>
    /\ Cardinality(received) = 2

\* The three steps of run_full_pipeline, by their key in results.
PipelineSteps == {"data_fetch", "genai_analysis", "map_creation"}

\* C19 (as claimed): when run_full_pipeline has ended, every failure a step
\* met (a fetch that raised or gave no stations, a failed analysis, a failed
\* map creation) is in the results as {success: false, error}, and an
\* exception reaches the caller for no failure of a step.
C19_StepFailuresStructured ==
    step = "end" /\ calls # <<>> =>
        /\ \A f \in errors : f.step \in PipelineSteps => results[f.step] = Failure(f.error)
        /\ outcome.kind = "raise" =>
              \E f \in errors : f.step \notin PipelineSteps /\ f.error = outcome.exc

\* A pipeline is past its constructor without an OpenAI client: the API key
\* was missing when it was constructed.
BuiltWithoutKey == step \notin {"start", "imported"} /\ openai_client = "None"

\* C20 (as claimed): a pipeline constructed without an API key does not run:
\* its constructor ended with the configuration error.
C20_MissingKeyAbortsConstruction ==
    BuiltWithoutKey =>
        /\ step = "end"
        /\ calls = <<>>
        /\ outcome = [kind |-> "raise", exc |-> "ValueError"]

\* C20 (amended): without an API key OpenAIClient() raises ValueError, but
\* the constructor of the pipeline does not: the pipeline is built without
\* an OpenAI client, and its runs never call the AI service and leave
\* genai_analysis None.
C20_MissingKeyDisablesGenAI ==
    /\ OpenAIClient("").exc = "ValueError"
    /\ BuiltWithoutKey =>
          /\ outcome.kind = "raise" => calls # <<>>
          /\ \A i \in DOMAIN calls :
                calls[i] \notin {"analyze_data", "get_map_design_recommendations"}
          /\ results.genai_analysis = NullEntry

\* A pipeline built without an API key ran with use_genai, fetched its data,
\* skipped step 2 and returned.
C20_Witness ==
    /\ BuiltWithoutKey
    /\ step = "end"
    /\ use_genai
    /\ outcome.kind = "return"
    /\ results.data_fetch.success
    /\ results.genai_analysis = NullEntry
    /\ Slash(Path(OUTPUT_DIR), SummaryFile).path \in outputs

\* The data fetch of this run failed: it raised, gave no stations, or its
\* table could not be written.
FetchFailed == \E f \in errors : f.step = "data_fetch"

\* C21: in the results of run_full_pipeline, genai_analysis or map_creation
\* is set only when data_fetch is set with success true; and in a run whose
\* data fetch failed, the fetch is the only service called: neither the AI
\* service nor the map workflow is.
C21_LaterStepsNeedData ==
    /\ ~results.genai_analysis.null \/ ~results.map_creation.null =>
          ~results.data_fetch.null /\ results.data_fetch.success
    /\ FetchFailed =>
          /\ calls = <<"get_combined_station_data">>
          /\ results.genai_analysis = NullEntry
          /\ results.map_creation = NullEntry
          /\ step \in {"end", "constructed"}

\* A run with GenAI and map creation asked for and available ended after
\* the data fetch raised.
C21_Witness ==
    /\ step = "end"
    /\ use_genai /\ openai_client # "None"
    /\ create_map /\ ARCPY_AVAILABLE
    /\ results.data_fetch = Failure("OSError")
    /\ outcome.kind = "return"

\* analyze_data was called in this run and returned success.
AnalysisSucceeded ==
    /\ \E i \in DOMAIN calls : calls[i] = "analyze_data"
    /\ [step |-> "genai_analysis", error |-> "APIError"] \notin errors

\* C22 (as claimed): once step 2 has ended in a run where analyze_data
\* returned success, results has genai_analysis with success true, the
\* analysis text and the path of the analysis file, and the file is written.
C22_AnalysisRecorded ==
    step \in {"step3", "summary", "end"} /\ AnalysisSucceeded =>
        /\ results.genai_analysis.success
        /\ {"analysis", "file_path"} \subseteq results.genai_analysis.keys

\* Step 3 has begun in this run, or has ended.
MapAttempted == workflow.status # "idle" \/ ~results.map_creation.null

\* Step 2 has ended in this run: when GenAI was asked for and configured,
\* genai_analysis is set.
GenAIFinished ==
    /\ step \notin {"step1", "step2"}
    /\ use_genai /\ openai_client # "None" => ~results.genai_analysis.null

\* C23: step 3 begins only after step 2 has ended, and a run that fetched
\* its data and was asked for a map has attempted step 3 when it comes to
\* the summary or ends, whatever genai_analysis holds: a success, a failure,
\* or nothing because step 2 was skipped.
C23_MapStepAfterGenAI ==
    /\ MapAttempted => GenAIFinished
    /\ step \in {"workflow", "summary", "end"} /\ results.data_fetch.success /\ create_map =>
          MapAttempted

\* The GenAI step ended with an exception, and the map workflow ran to its
\* end afterwards.
C23_Witness ==
    /\ step = "end"
    /\ create_map
    /\ results.genai_analysis = Failure("TypeError")
    /\ results.map_creation.success
    /\ calls = <<"get_combined_station_data", "analyze_data", "create_bixi_map_workflow">>

\* The file of the results summary (line 186).
SummaryPath == Slash(Path(OUTPUT_DIR), SummaryFile).path

\* C24 (as claimed): when a run of run_full_pipeline whose data fetch step
\* succeeded has returned, the summary file is written, whatever
\* genai_analysis and map_creation hold.
C24_SummaryWritten ==
    step = "end" /\ results.data_fetch.success /\ outcome.kind = "return" =>
        SummaryPath \in outputs

\* The seven steps of the map workflow in the order claimed, after the
\* construction of the mapper.
ClaimedOrder ==
    <<"create_feature_class_from_csv", "add_layer_to_map", "style_layer_by_field",
      "create_layout", "add_layout_elements", "export_map", "save_project">>

\* The steps whose failure ends the workflow, and those whose failure is
\* only warned.
AbortingSteps ==
    {"create_feature_class_from_csv", "add_layer_to_map", "create_layout", "export_map"}

WarnedSteps == {"style_layer_by_field", "add_layout_elements", "save_project"}

\* The steps of the workflow begun so far, the construction of the mapper
\* left out.
StepsRun == IF workflow.ran = <<>> THEN <<>> ELSE Tail(workflow.ran)

\* C25: the steps of create_bixi_map_workflow run in the claimed order; the
\* workflow ends with an error exactly at the construction of the mapper or
\* at a failed aborting step, which is then the last step run, and no map
\* is exported; only styling,
\* layout elements and saving fail with a warning, the workflow goes on past
\* them, and a workflow that returns has run all seven steps.
C25_WorkflowOrderAndFailures ==
    /\ Len(StepsRun) <= Len(ClaimedOrder)
    /\ StepsRun = SubSeq(ClaimedOrder, 1, Len(StepsRun))
    /\ workflow.ran # <<>> => workflow.ran[1] = "ArcPyMapper"
    /\ workflow.warned \subseteq WarnedSteps
    /\ workflow.status = "raised" =>
          /\ workflow.ran[Len(workflow.ran)] \in AbortingSteps \cup {"ArcPyMapper"}
          /\ MapFile \notin outputs
    /\ workflow.status = "returned" => StepsRun = ClaimedOrder
    /\ step = "end" /\ results.map_creation.success =>
          workflow.status = "returned" /\ MapFile \in outputs

\* Styling, the layout elements and the saving of the project all failed,
\* and the workflow still ran its seven steps, exported the map and returned.
C25_Witness ==
    /\ step = "end"
    /\ workflow.status = "returned"
    /\ workflow.warned = WarnedSteps
    /\ StepsRun = ClaimedOrder
    /\ MapFile \in outputs
    /\ results.map_creation.success

====
